---------------------------- MODULE Spec2Model ----------------------------
(***************************************************************************)
(* A state-machine model of pig (truchi/pig): the `$ref` resolver of       *)
(* src/resolver.rs and the output reconciler (`Pig::clean`) of src/pig.rs. *)
(*                                                                         *)
(* Text (reference strings, file names) is a sequence of atoms: the three  *)
(* characters the code inspects ("#", "/", " ") are atoms of their own,    *)
(* every other atom stands for a run of ordinary characters.  A path is    *)
(* the sequence of its components, <<>> being the file-system root.        *)
(* A JSON value is a record tagged by t.                                   *)
(***************************************************************************)
EXTENDS Integers, Sequences, FiniteSets, TLC

VARIABLES
    fs,          \* schema files on disk: canonical path -> parsed YAML content
    file,        \* Resolver.file: the canonical root file
    files,       \* Resolver.files: the session cache, canonical path -> Json
    references,  \* the resolution stack (`references: &mut Vec<Reference>`)
    calls,       \* the activation records of the inner `resolve`, innermost last
    output,      \* the value returned by `Resolver::resolve`
    status,      \* "init" | "loaded" | "resolving" | "ok" | "error"
    error,       \* the failure that ended the session (kind "none" until then)
    reads,       \* history: how many times each file was opened (File::open)
    store,       \* regular files of the output side: path -> content
    dirs,        \* the directories that exist
    clock,       \* SystemTime::now(), in milliseconds
    config,      \* Config.entries, each with its output root and its templates
    step,        \* where `Pig::run` stands: "idle" | "clean" | "walk" | "render" | "failed"
    pass,        \* the locals of `Pig::clean`: outputs, trash, created, entry, todo
    log,         \* history: one record per reconcile pass
    schema,      \* watch mode: the schema files, path -> what they refer to
    inputs,      \* watch mode: the template names found in each input directory
    watches,     \* watch mode: the paths registered with the live watchers
    pending,     \* watch mode: notifications the backends have not sent yet
    channel,     \* watch mode: the events sent to the receiver and not yet taken
    session,     \* watch mode: the running Watcher and its WatcherEntry states
    hist         \* history of a watch session: events sent, events taken, steps

resolverVars == <<fs, file, files, references, calls, output, status, error, reads>>

pigVars == <<store, dirs, clock, config, step, pass, log>>

watchVars == <<schema, inputs, watches, pending, channel, session, hist>>

vars == <<fs, file, files, references, calls, output, status, error, reads,
          store, dirs, clock, config, step, pass, log,
          schema, inputs, watches, pending, channel, session, hist>>

\* No watch session
WatchOff ==
    /\ schema = <<>>
    /\ inputs = <<>>
    /\ watches = {}
    /\ pending = {}
    /\ channel = <<>>
    /\ session = <<>>
    /\ hist = <<>>

---------------------------------------------------------------------------
(* Bounds of the model.                                                    *)

MaxFiles == 3

MaxEntries == 2

MaxRuns == 2

MaxClock == 2

MaxWrites == 1

MaxReloads == 1

---------------------------------------------------------------------------
(* Sequences and text.                                                     *)

Last(s) == s[Len(s)]

Front(s) == SubSeq(s, 1, Len(s) - 1)

Contains(s, e) == \E i \in 1..Len(s) : s[i] = e

\* F applied to the value of e, with e evaluated once: equal to F(e)
Bind(e, F(_)) == CHOOSE r \in {F(v) : v \in {e}} : TRUE

RECURSIVE SplitOn(_, _)
\* str::split(c): the pieces between the occurrences of c (always >= 1 piece)
SplitOn(s, c) ==
    IF \A i \in 1..Len(s) : s[i] # c
    THEN <<s>>
    ELSE Bind(CHOOSE k \in 1..Len(s) : s[k] = c /\ \A j \in 1..(k - 1) : s[j] # c,
              LAMBDA i : <<SubSeq(s, 1, i - 1)>>
                         \o Bind(SubSeq(s, i + 1, Len(s)), LAMBDA rest : SplitOn(rest, c)))

RECURSIVE Trim(_)
\* str::trim: leading and trailing white space removed
Trim(s) ==
    IF s = <<>> THEN s
    ELSE IF s[1] = " " THEN Trim(Tail(s))
    ELSE IF Last(s) = " " THEN Trim(Front(s))
    ELSE s

RECURSIVE JoinWith(_, _)
\* [String]::join(sep) over one-atom strings
JoinWith(ss, sep) ==
    IF ss = <<>> THEN <<>>
    ELSE IF Len(ss) = 1 THEN <<ss[1]>>
    ELSE <<ss[1], sep>> \o JoinWith(Tail(ss), sep)

---------------------------------------------------------------------------
(* JSON values (serde_json::Value).                                        *)

Null == [t |-> "null"]

Num(n) == [t |-> "num", n |-> n]

Str(s) == [t |-> "str", s |-> s]

Arr(a) == [t |-> "arr", a |-> a]

Obj(o) == [t |-> "obj", o |-> o]

EmptyObj == Obj([k \in {} |-> Null])

IsObj(v) == v.t = "obj"

IsScalar(v) == v.t \in {"null", "bool", "num", "str"}

HasKey(v, k) == IsObj(v) /\ k \in DOMAIN v.o

\* Map::insert / Map::extend: later entries replace earlier ones
Insert(o, k, v) == [j \in DOMAIN o \cup {k} |-> IF j = k THEN v ELSE o[j]]

Extend(o, e) == [j \in DOMAIN o \cup DOMAIN e |-> IF j \in DOMAIN e THEN e[j] ELSE o[j]]

\* The iteration order of serde_json::Map (a BTreeMap: keys in byte order),
\* over the keys that occur in the model.
KeyOrder ==
    <<"$file", "$keys", "$name", "$ref", "components", "extra", "info",
      "inner", "junk", "openapi", "paths", "title", "value", "version",
      "x", "y", "z">>

SortedKeys(o) == SelectSeq(KeyOrder, LAMBDA k : k \in DOMAIN o)


---------------------------------------------------------------------------
(* The file system holding the schema files.  File k of a session is       *)
(* /p/<name> for odd k and /p/sub/<name> for even k, so that relative      *)
(* references cross directories in both directions.  There are no          *)
(* symbolic links.                                                         *)

FileNames == <<"a.yaml", "b.yaml", "c.yaml", "d.yaml", "e.yaml">>

Base == <<"p">>

Dirs == {<<>>, Base, Base \o <<"sub">>}

DirOf(k) == IF k % 2 = 1 THEN Base ELSE Base \o <<"sub">>

FilePath(k) == Append(DirOf(k), FileNames[k])

\* Path::parent
Parent(path) == Front(path)

\* Path::display of an absolute path
RECURSIVE Display(_)
Display(path) ==
    IF path = <<>> THEN <<>> ELSE <<"/", Head(path)>> \o Display(Tail(path))

\* A path component as written in a text: the piece between two "/".  A
\* piece of several atoms (a name with inner white space) names no file of
\* the modelled file system and is kept as the name "?".
CompOf(piece) == IF Len(piece) = 1 THEN piece[1] ELSE "?"

\* Path components of a path text: empty pieces (a leading or a doubled "/")
\* are no components
Components(text) ==
    Bind(SelectSeq(SplitOn(text, "/"), LAMBDA q : q # <<>>),
         LAMBDA kept : [i \in 1..Len(kept) |-> CompOf(kept[i])])

RECURSIVE WalkFrom(_, _, _)
\* Path::canonicalize from an existing directory: "." and ".." are resolved,
\* every intermediate component must be an existing directory and the last
\* one an existing file or directory
WalkFrom(disk, dir, comps) ==
    IF comps = <<>> THEN [ok |-> TRUE, path |-> dir]
    ELSE LET c == Head(comps)
             p == Append(dir, c)
         IN  IF c = "." THEN WalkFrom(disk, dir, Tail(comps))
             ELSE IF c = ".."
                  THEN Bind(IF dir = <<>> THEN dir ELSE Front(dir),
                            LAMBDA up : WalkFrom(disk, up, Tail(comps)))
             ELSE IF p \in Dirs
                  THEN Bind(p, LAMBDA down : WalkFrom(disk, down, Tail(comps)))
             ELSE IF p \in DOMAIN disk /\ Len(comps) = 1 THEN [ok |-> TRUE, path |-> p]
             ELSE [ok |-> FALSE, path |-> <<>>]

Canonicalize(disk, path) == Bind(path, LAMBDA q : WalkFrom(disk, <<>>, q))

---------------------------------------------------------------------------
(* Reference (src/resolver.rs).                                            *)

NoReference == [file |-> <<>>, keys |-> <<>>]

\* A key segment as a map key; segments of the texts considered are one atom
KeyOf(piece) == IF Len(piece) = 1 THEN piece[1] ELSE "?"

\* Reference::new(current, str): [err, ref]
ReferenceNew(disk, current, str) ==
    Bind(SplitOn(str, "#"), LAMBDA split :
    IF Len(split) < 2
    THEN [err |-> "malformed", ref |-> NoReference]
    ELSE Bind(Trim(split[1]), LAMBDA part :
         Bind(IF part = <<>> THEN current
              ELSE IF part[1] # "/"
                   THEN Parent(current) \o Components(part)
                   ELSE Components(part), LAMBDA path :
         Bind(Canonicalize(disk, path), LAMBDA canon :
         Bind(SplitOn(split[2], "/"), LAMBDA segs :
         Bind(SelectSeq([i \in 1..Len(segs) |-> Trim(segs[i])], LAMBDA q : q # <<>>),
              LAMBDA kept :
         IF ~canon.ok
         THEN [err |-> "io", ref |-> NoReference]
         ELSE [err |-> "none",
               ref |-> [file |-> canon.path,
                        keys |-> [i \in 1..Len(kept) |-> KeyOf(kept[i])]]]))))))

\* Reference::display(end)
ReferenceDisplay(ref, end) ==
    Display(ref.file) \o <<"#", "/">> \o JoinWith(SubSeq(ref.keys, 1, end), "/")

\* impl Display for Reference
ReferenceToString(ref) ==
    Display(ref.file) \o <<"#", "/">> \o JoinWith(ref.keys, "/")

---------------------------------------------------------------------------
(* Document cache / loader (Resolver::load).                               *)

\* Whether a tree deserializes into openapiv3::OpenAPI.  The crate is not
\* part of the repository; the validation kept here is the one the loader itself
\* documents: the mandatory fields it injects into dependency files.
DecodesAsOpenAPI(v) ==
    /\ IsObj(v)
    /\ HasKey(v, "openapi") /\ v.o["openapi"].t = "str"
    /\ HasKey(v, "info") /\ HasKey(v.o["info"], "title") /\ HasKey(v.o["info"], "version")
    /\ HasKey(v, "paths") /\ IsObj(v.o["paths"])

\* The top-level fields of an OpenAPI document
OpenAPIFields ==
    {"openapi", "info", "servers", "paths", "components", "security", "tags",
     "externalDocs"}

\* serde_json::to_value of the decoded root: fields the OpenAPI type does not
\* have are not serialized back
ToValue(v) == Obj([k \in DOMAIN v.o \cap OpenAPIFields |-> v.o[k]])

\* The throwaway copy patched with the mandatory fields
Patched(v, openapi) ==
    IF IsObj(v)
    THEN Obj(Insert(Insert(Insert(v.o, "openapi", Str(openapi)),
                           "info", Obj([k \in {"title", "version"} |-> Str(<<>>)])),
                    "paths", EmptyObj))
    ELSE v

\* Whether the cache holds the main file and it carries a string `openapi`
RootVersionKnown(cache, root) ==
    /\ root \in DOMAIN cache
    /\ HasKey(cache[root], "openapi")
    /\ cache[root].o["openapi"].t = "str"

\* Variant: the cache is never consulted
NeverCached(cache, path) == FALSE

\* `self.files.contains_key(&file)`
Cached(cache, path) == path \in DOMAIN cache

\* Resolver::load(path) on the cache `cache` with the read history `rds`:
\* [err, files, reads, path].  Every caller passes an absolute path, so the
\* join with the main file's directory is never taken.
Load(disk, root, cache, rds, path) ==
    Bind(Canonicalize(disk, path), LAMBDA canon :
    LET p     == canon.path
        same  == [err |-> "none", files |-> cache, reads |-> rds, path |-> p]
    IN  IF ~canon.ok THEN [same EXCEPT !.err = "io"]
        ELSE IF Cached(cache, p) THEN same
        ELSE IF p \notin DOMAIN disk THEN [same EXCEPT !.err = "io"]
        ELSE LET raw    == disk[p]
                 opened == [rds EXCEPT ![p] = @ + 1]
                 valid  == IF RootVersionKnown(cache, root)
                           THEN DecodesAsOpenAPI(Patched(raw, cache[root].o["openapi"].s))
                           ELSE DecodesAsOpenAPI(raw)
                 value  == IF RootVersionKnown(cache, root) THEN raw ELSE ToValue(raw)
             IN  IF ~valid
                 THEN [same EXCEPT !.err = "parse", !.reads = opened]
                 ELSE [same EXCEPT !.files = (p :> value) @@ cache, !.reads = opened])

---------------------------------------------------------------------------
(* The schema files a session may find on disk.  A session has n files;    *)
(* every file holds `components: {x, y}`; the main file (file 1) also      *)
(* carries the mandatory document fields and a field OpenAPI does not      *)
(* know.  References lead to the same file, to the next file               *)
(* (k -> k+1 -> ... -> n -> 1) or to the one after it, spelled in          *)
(* different ways.                                                         *)

Leaf == Obj("value" :> Num(1))

RefNode(text) == Obj("$ref" :> Str(text))

\* The file part that leads from file k to file j, relative to k's directory
RelPart(k, j) ==
    IF k = j THEN <<>>
    ELSE IF DirOf(k) = DirOf(j) THEN <<FileNames[j]>>
    ELSE IF DirOf(k) = Base THEN <<"sub", "/", FileNames[j]>>
    ELSE <<"..", "/", FileNames[j]>>

\* "<file>#/components/<key>"
PlainText(k, j, key) == RelPart(k, j) \o <<"#", "/", "components", "/", key>>

\* the same reference with white space around the parts and empty segments
SpacedText(k, j, key) ==
    <<" ">> \o RelPart(k, j) \o <<" ", "#", " ", "/", "/", " ", "components", " ", "/", key, "/">>

\* the same reference through an absolute path with a "." component
AbsoluteText(j, key) ==
    <<"/", "p", "/", ".">> \o Display(Tail(FilePath(j))) \o <<"#", "components", "/", key>>

Next1(k, n) == (k % n) + 1

Next2(k, n) == ((k + 1) % n) + 1

GeneralKinds ==
    {"plain", "link", "local", "chain", "nested", "fork", "reserved_file", "extra"}

LastKinds ==
    {"reserved_keys", "reserved_name", "reserved_ref", "malformed", "missing_file",
     "directory", "not_found", "empty_keys", "not_string", "not_object",
     "scalar_doc", "no_header"}

\* components.x and components.y of file k of n, of the given kind
Slots(k, n, kind) ==
    LET nx    == Next1(k, n)
        local == RefNode(SpacedText(k, k, "y"))
        with(x, y) == [x |-> x, y |-> y]
    IN  CASE kind = "plain"  -> with(Leaf, Leaf)
          [] kind = "link"   -> with(RefNode(PlainText(k, nx, "x")), Leaf)
          [] kind = "local"  -> with(local, Leaf)
          [] kind = "chain"  -> with(local, RefNode(PlainText(k, nx, "x")))
          [] kind = "nested" ->
                with(Obj("inner" :> RefNode(PlainText(k, nx, "x"))),
                     Arr(<<RefNode(AbsoluteText(nx, "y")), Num(2),
                           RefNode(PlainText(k, nx, "y"))>>))
          [] kind = "fork"   ->
                with(RefNode(PlainText(k, nx, "x")),
                     Obj("inner" :> RefNode(SpacedText(k, Next2(k, n), "y"))))
          [] kind = "reserved_file" ->
                with(local, Obj("$file" :> Str(<<"s">>) @@ "value" :> Num(1)))
          [] kind = "reserved_keys" ->
                with(local, Obj("$keys" :> Arr(<<>>) @@ "value" :> Num(1)))
          [] kind = "reserved_name" ->
                with(local, Obj("$name" :> Str(<<"s">>) @@ "value" :> Num(1)))
          [] kind = "reserved_ref" ->
                with(local, Obj("$ref" :> Str(PlainText(k, nx, "x")) @@ "value" :> Num(1)))
          [] kind = "extra" ->
                with(Obj("$ref" :> Str(PlainText(k, nx, "x")) @@ "extra" :> Num(1)), Leaf)
          [] kind = "malformed"    -> with(RefNode(<<FileNames[nx]>>), Leaf)
          [] kind = "missing_file" -> with(RefNode(<<"nowhere.yaml", "#", "/", "x">>), Leaf)
          [] kind = "directory"    -> with(RefNode(<<"/", "p", "/", "sub", "#", "/", "x">>), Leaf)
          [] kind = "not_found"    -> with(RefNode(<<"#", "/", "components", "/", "z">>), Leaf)
          [] kind = "empty_keys"   -> with(RefNode(RelPart(k, nx) \o <<"#", "/", " ">>), Leaf)
          [] kind = "not_string"   -> with(Obj("$ref" :> Num(1)), Leaf)
          [] kind = "not_object"   ->
                with(RefNode(<<"#", "/", "components", "/", "y", "/", "value">>), Leaf)
          [] OTHER -> with(Leaf, Leaf)

Header ==
    "openapi" :> Str(<<"3.0.0">>)
    @@ "info" :> Obj("title" :> Str(<<"t">>) @@ "version" :> Str(<<"v">>))
    @@ "paths" :> EmptyObj
    @@ "junk" :> Num(0)

\* The content of file k of n
Document(k, n, kind) ==
    LET slots == Slots(k, n, kind)
        body  == "components" :> Obj("x" :> slots.x @@ "y" :> slots.y)
    IN  IF kind = "scalar_doc" THEN Str(<<"s">>)
        ELSE IF k = 1 /\ kind # "no_header" THEN Obj(body @@ Header)
        ELSE Obj(body)

IndexOf(path) == CHOOSE k \in 1..Len(FileNames) : FilePath(k) = path

\* The file systems considered: n files, the last of any kind
FileSystems ==
    UNION {
      { [p \in {FilePath(k) : k \in 1..n} |->
            Document(IndexOf(p), n, IF IndexOf(p) = n THEN last ELSE kinds[IndexOf(p)])]
        : kinds \in [1..(n - 1) -> GeneralKinds],
          last \in (GeneralKinds \cup LastKinds) \ (IF n = 1 THEN {} ELSE {"no_header"}) }
      : n \in 1..MaxFiles }

---------------------------------------------------------------------------
(* Resolver::new and Resolver::resolve.                                    *)

NoError == [kind |-> "none", chain |-> <<>>, detail |-> <<>>]

Failure(kind, chain, detail) == [kind |-> kind, chain |-> chain, detail |-> detail]

NoExtension == [k \in {} |-> Null]

\* An activation of the inner `resolve`: its `value`, where it stands, what
\* is left of its loop over the children and, for a reference node, the
\* `extension` it built
Frame(value, pc, keys, idx, extension) ==
    [value |-> value, pc |-> pc, keys |-> keys, idx |-> idx, extension |-> extension]

Enter(value) == Frame(value, "enter", <<>>, 0, NoExtension)

Top == Last(calls)

Rest == Front(calls)

Running == status = "resolving" /\ calls # <<>>

\* The caller's activation once the callee has left `v` in the caller's child
Resume(parent, v) ==
    IF parent.pc = "ref" THEN [parent EXCEPT !.value = v, !.pc = "annotate"]
    ELSE IF parent.value.t = "arr"
    THEN [parent EXCEPT !.value = Arr([parent.value.a EXCEPT ![parent.idx] = v]),
                        !.idx = @ + 1]
    ELSE [parent EXCEPT !.value = Obj([parent.value.o EXCEPT ![Head(parent.keys)] = v]),
                        !.keys = Tail(@)]

\* `Ok(())` of the innermost activation, whose value is now v
Return(v) ==
    IF Rest = <<>>
    THEN /\ calls' = <<>>
         /\ output' = v
         /\ status' = "ok"
    ELSE /\ calls' = Append(Front(Rest), Resume(Last(Rest), v))
         /\ output' = output
         /\ status' = status

\* A panic or an `Err` leaves resolve
Fail(err) ==
    /\ status' = "error"
    /\ error' = err
    /\ UNCHANGED <<calls, output>>

\* Variant: `$name` is the first key, not the last
ExtensionFirstKey(ref) ==
    "$ref" :> Str(ReferenceToString(ref))
    @@ "$file" :> Str(Display(ref.file))
    @@ "$keys" :> Arr([i \in 1..Len(ref.keys) |-> Str(<<ref.keys[i]>>)])
    @@ "$name" :> Str(<<Head(ref.keys)>>)

\* The four reserved entries built for a reference
Extension(ref) ==
    "$ref" :> Str(ReferenceToString(ref))
    @@ "$file" :> Str(Display(ref.file))
    @@ "$keys" :> Arr([i \in 1..Len(ref.keys) |-> Str(<<ref.keys[i]>>)])
    @@ "$name" :> Str(<<Last(ref.keys)>>)

\* Value::get(key) with a string key: only objects have such entries
Get(v, key) == IF HasKey(v, key) THEN [ok |-> TRUE, value |-> v.o[key]]
               ELSE [ok |-> FALSE, value |-> Null]

RECURSIVE Walk(_, _, _)
\* The walk down the key list: [ok, value, at] where `at` counts the keys
\* consumed when a key is missing
Walk(v, keys, i) ==
    IF i > Len(keys) THEN [ok |-> TRUE, value |-> v, at |-> Len(keys)]
    ELSE Bind(Get(v, keys[i]), LAMBDA got :
              IF got.ok THEN Walk(got.value, keys, i + 1)
              ELSE [ok |-> FALSE, value |-> Null, at |-> i])

\* Variant: every file part is interpreted against the root file
AlwaysRoot == file

\* The file a reference text is read against
CurrentFile == IF references = <<>> THEN file ELSE Last(references).file

\* The keys of a `$ref` object other than `$ref`
ExtraKeys(o) == SelectSeq(SortedKeys(o), LAMBDA k : k # "$ref")

Init ==
    /\ fs \in FileSystems
    /\ file = FilePath(1)
    /\ files = [p \in {} |-> Null]
    /\ references = <<>>
    /\ calls = <<>>
    /\ output = Null
    /\ status = "init"
    /\ error = NoError
    /\ reads = [p \in DOMAIN fs |-> 0]
    /\ store = <<>>
    /\ dirs = {}
    /\ clock = 0
    /\ config = <<>>
    /\ step = "off"
    /\ pass = <<>>
    /\ log = <<>>
    /\ WatchOff

\* Resolver::new: the main file is loaded
NewResolver ==
    /\ status = "init"
    /\ LET ld == Load(fs, file, files, reads, file)
       IN  /\ files' = ld.files
           /\ reads' = ld.reads
           /\ status' = IF ld.err = "none" THEN "loaded" ELSE "error"
           /\ error' = IF ld.err = "none" THEN error ELSE Failure(ld.err, <<>>, <<>>)
    /\ UNCHANGED <<pigVars, watchVars, fs, file, references, calls, output>>

\* Variant: the file as it is on disk is resolved, not the loaded document
ResolveStartRaw ==
    /\ status = "loaded"
    /\ calls' = <<Enter(fs[file])>>
    /\ status' = "resolving"
    /\ UNCHANGED <<pigVars, watchVars, fs, file, files, references, output, error, reads>>

\* Resolver::resolve: the clone of the main document is handed to `resolve`
ResolveStart ==
    /\ status = "loaded"
    /\ calls' = <<Enter(files[file])>>
    /\ status' = "resolving"
    /\ UNCHANGED <<pigVars, watchVars, fs, file, files, references, output, error, reads>>

\* Json::Null | Bool | Number | String
ResolveScalar ==
    /\ Running
    /\ Top.pc = "enter"
    /\ IsScalar(Top.value)
    /\ Return(Top.value)
    /\ UNCHANGED <<pigVars, watchVars, fs, file, files, references, error, reads>>

\* Variant: arrays are returned as they are, like scalars
ResolveArrayUnvisited ==
    /\ Running
    /\ Top.pc = "enter"
    /\ Top.value.t = "arr"
    /\ Return(Top.value)
    /\ UNCHANGED <<pigVars, watchVars, fs, file, files, references, error, reads>>

\* Json::Array: the loop over the elements starts
ResolveArray ==
    /\ Running
    /\ Top.pc = "enter"
    /\ Top.value.t = "arr"
    /\ calls' = Append(Rest, [Top EXCEPT !.pc = "iter", !.idx = 1])
    /\ UNCHANGED <<pigVars, watchVars, fs, file, files, references, output, status, error, reads>>

\* Json::Object without `$ref`: the loop over the values starts
ResolveObject ==
    /\ Running
    /\ Top.pc = "enter"
    /\ IsObj(Top.value)
    /\ "$ref" \notin DOMAIN Top.value.o
    /\ calls' = Append(Rest, [Top EXCEPT !.pc = "iter", !.keys = SortedKeys(Top.value.o)])
    /\ UNCHANGED <<pigVars, watchVars, fs, file, files, references, output, status, error, reads>>

\* What is left of the loop of an activation
HasNext(frame) ==
    IF frame.value.t = "arr" THEN frame.idx <= Len(frame.value.a) ELSE frame.keys # <<>>

NextChild(frame) ==
    IF frame.value.t = "arr" THEN frame.value.a[frame.idx] ELSE frame.value.o[Head(frame.keys)]

\* The recursive call on the next element or value
Descend ==
    /\ Running
    /\ Top.pc = "iter"
    /\ HasNext(Top)
    /\ calls' = Append(calls, Enter(NextChild(Top)))
    /\ UNCHANGED <<pigVars, watchVars, fs, file, files, references, output, status, error, reads>>

\* The loop is over: `Ok(())`
Finish ==
    /\ Running
    /\ Top.pc = "iter"
    /\ ~HasNext(Top)
    /\ Return(Top.value)
    /\ UNCHANGED <<pigVars, watchVars, fs, file, files, references, error, reads>>

\* Variant: the assertion on the number of keys is missing
AnyKeys(object) == TRUE

\* `object.len() == 1`: the reference object has no key but `$ref`
SoleKey(object) == Cardinality(DOMAIN object) = 1

\* Variant: only the innermost reference is compared
OnStackInnermost(stack, ref) == stack # <<>> /\ Last(stack) = ref

\* Variant: references are compared by their file alone
OnStackSameFile(stack, ref) == \E i \in 1..Len(stack) : stack[i].file = ref.file

\* `references.contains(&reference)`
OnStack(stack, ref) == Contains(stack, ref)

\* Json::Object with `$ref`, up to the recursive call on the clone of the
\* target: the checks in the order of the code, each of which leaves
\* resolve when it fails
ResolveRef ==
    /\ Running
    /\ Top.pc = "enter"
    /\ HasKey(Top.value, "$ref")
    /\ LET object == Top.value.o
           text   == object["$ref"]
       IN  IF ~SoleKey(object)
           THEN /\ Fail(Failure("invalid_ref_object", <<>>, ExtraKeys(object)))
                /\ UNCHANGED <<files, reads, references>>
           ELSE IF text.t # "str"
           THEN /\ Fail(Failure("ref_not_string", <<>>, <<>>))
                /\ UNCHANGED <<files, reads, references>>
           ELSE \E new \in {ReferenceNew(fs, CurrentFile, text.s)} :
                IF new.err # "none"
                THEN /\ Fail(Failure(new.err, <<>>, <<>>))
                     /\ UNCHANGED <<files, reads, references>>
                ELSE IF OnStack(references, new.ref)
                THEN /\ references' = Append(references, new.ref)
                     /\ Fail(Failure("cycle",
                                     [i \in 1..Len(references) + 1 |->
                                         ReferenceToString(Append(references, new.ref)[i])],
                                     <<>>))
                     /\ UNCHANGED <<files, reads>>
                ELSE IF new.ref.keys = <<>>
                THEN /\ Fail(Failure("empty_keys", <<>>, <<>>))
                     /\ UNCHANGED <<files, reads, references>>
                ELSE \E ld \in {Load(fs, file, files, reads, new.ref.file)} :
                     /\ files' = ld.files
                     /\ reads' = ld.reads
                     /\ IF ld.err # "none"
                        THEN /\ Fail(Failure(ld.err, <<>>, <<>>))
                             /\ UNCHANGED references
                        ELSE \E found \in {Walk(ld.files[new.ref.file], new.ref.keys, 1)} :
                             IF ~found.ok
                             THEN /\ Fail(Failure("not_found", <<>>,
                                                  ReferenceDisplay(new.ref, found.at)))
                                  /\ UNCHANGED references
                             ELSE /\ references' = Append(references, new.ref)
                                  /\ calls' = Append(Rest, [Top EXCEPT
                                                              !.pc = "ref",
                                                              !.extension = Extension(new.ref)])
                                                \o <<Enter(found.value)>>
                                  /\ UNCHANGED <<output, status, error>>
    /\ UNCHANGED <<pigVars, watchVars, fs, file>>

\* Variant: no key is ever found to collide
NoCollision(o, extension) == <<>>

\* The keys of the resolved target that the extension also has, in the
\* map's iteration order
Colliding(o, extension) ==
    SelectSeq(SortedKeys(o), LAMBDA k : k \in DOMAIN extension)

\* `references.pop()`
Pop(stack) == Front(stack)

\* After the recursive call on the clone: the stack is popped, the resolved
\* target gets the extension and replaces the reference node
Annotate ==
    /\ Running
    /\ Top.pc = "annotate"
    /\ references' = Pop(references)
    /\ IF ~IsObj(Top.value)
       THEN Fail(Failure("not_object", <<>>, <<>>))
       ELSE IF Colliding(Top.value.o, Top.extension) # <<>>
       THEN Fail(Failure("collision", <<>>, <<Head(Colliding(Top.value.o, Top.extension))>>))
       ELSE /\ Return(Obj(Extend(Top.value.o, Top.extension)))
            /\ error' = error
    /\ UNCHANGED <<pigVars, watchVars, fs, file, files, reads>>

Next ==
    \/ NewResolver
    \/ ResolveStart
    \/ ResolveScalar
    \/ ResolveArray
    \/ ResolveObject
    \/ Descend
    \/ Finish
    \/ ResolveRef
    \/ Annotate

Spec == Init /\ [][Next]_vars

\* A sequential program takes its next step as long as it has one
SpecFair == Init /\ [][Next]_vars /\ WF_vars(Next)

---------------------------------------------------------------------------
(* Pig::run and Pig::clean (src/pig.rs).  Output roots, template names and *)
(* output files are paths; a template name ends with the JINJA atom.       *)

JINJA == ".jinja"

JSON_CONTEXT == ".pig.context.json"

YAML_CONTEXT == ".pig.context.yaml"

TRASH == ".pig.trash"

\* `config.file.parent()`
ConfigDir == <<"c">>

\* Path::starts_with: whole components are compared
StartsWith(path, prefix) ==
    Len(prefix) <= Len(path) /\ SubSeq(path, 1, Len(prefix)) = prefix

\* Path::strip_prefix
StripPrefix(path, prefix) == SubSeq(path, Len(prefix) + 1, Len(path))

\* A directory and all the directories above it (what create_dir_all leaves)
Ancestors(path) == {SubSeq(path, 1, i) : i \in 0..Len(path)}

\* Pig::output: the template name without its last JINJA.len() characters,
\* joined to the entry's output root
Output(entry, template) ==
    entry.output \o SubSeq(template, 1, Len(template) - Len(<<JINJA>>))

\* The two snapshot files of an entry
JsonContext(entry) == entry.output \o <<JSON_CONTEXT>>

YamlContext(entry) == entry.output \o <<YAML_CONTEXT>>

\* The `outputs` set of Pig::clean: the output of every template of every entry
Outputs(cfg) ==
    UNION {{Output(cfg[i], t) : t \in cfg[i].templates} : i \in 1..Len(cfg)}

\* Variant: no repeated output is ever noticed
NeverConflicting(cfg) == FALSE

\* Two (entry, template) pairs have the same output
Conflicting(cfg) ==
    \E i, j \in 1..Len(cfg) :
       \E t \in cfg[i].templates, u \in cfg[j].templates :
          (i # j \/ t # u) /\ Output(cfg[i], t) = Output(cfg[j], u)

\* The regular files WalkDir yields under a root
FilesUnder(d, root) == {p \in DOMAIN d : StartsWith(p, root)}

\* std::fs::rename of a regular file onto a path that is not a directory
Rename(d, from, to) ==
    [p \in (DOMAIN d \ {from}) \cup {to} |-> IF p = to THEN d[from] ELSE d[p]]

\* File contents written by the program
ContextText == <<"context">>

RenderedText == <<"rendered">>

\* The sessions considered.  The first entry writes to /c/o1; a later entry
\* to a directory of its own, to the same directory or to a directory inside
\* it.  Before the first run the output directories hold files of earlier
\* runs, each with a content of its own (its path).
OutputRoots(k) ==
    IF k = 1 THEN {<<"c", "o1">>}
    ELSE {<<"c", "o2">>, <<"c", "o1">>, <<"c", "o1", "d">>}

TemplateNames(k) ==
    IF k = 1 THEN {<<"A", JINJA>>, <<"d", "A", JINJA>>} ELSE {<<"A", JINJA>>}

Leftovers(k) ==
    IF k = 1 THEN {<<"A">>, <<"B">>, <<"d", "B">>} ELSE {<<"A">>, <<"B">>}

EntriesAt(k) == [output : OutputRoots(k), templates : SUBSET TemplateNames(k)]

Configs ==
    UNION {{c \in [1..n -> UNION {EntriesAt(k) : k \in 1..n}] :
               \A k \in 1..n : c[k] \in EntriesAt(k)} : n \in 1..MaxEntries}

Disks(cfg) ==
    {[p \in UNION {{cfg[k].output \o r : r \in left[k]} : k \in 1..Len(cfg)} |-> p] :
        left \in {l \in [1..Len(cfg) -> SUBSET UNION {Leftovers(k) : k \in 1..Len(cfg)}] :
                     \A k \in 1..Len(cfg) : l[k] \subseteq Leftovers(k)}}

NoPass == [outputs |-> {}, trash |-> <<>>, created |-> FALSE, entry |-> 0, todo |-> {}]

InitPig ==
    /\ config \in Configs
    /\ store \in Disks(config)
    /\ dirs = UNION {Ancestors(Parent(p)) : p \in DOMAIN store}
                \cup UNION {Ancestors(config[k].output) : k \in 1..Len(config)}
                \cup Ancestors(ConfigDir)
    /\ clock = 1
    /\ step = "idle"
    /\ pass = NoPass
    /\ log = <<>>
    /\ WatchOff
    /\ fs = <<>>
    /\ file = <<>>
    /\ files = <<>>
    /\ references = <<>>
    /\ calls = <<>>
    /\ output = Null
    /\ status = "off"
    /\ error = NoError
    /\ reads = <<>>

\* Pig::run, first part: for every entry the schema is resolved, the two
\* snapshot files are written and the templates are enumerated
RunStart ==
    /\ step \in {"idle", "failed"}
    /\ Len(log) < MaxRuns
    /\ LET written == UNION {{JsonContext(config[k]), YamlContext(config[k])} :
                                k \in 1..Len(config)}
       IN  store' = [p \in DOMAIN store \cup written |->
                       IF p \in written THEN ContextText ELSE store[p]]
    /\ step' = "clean"
    /\ UNCHANGED <<dirs, clock, config, pass, log, resolverVars, watchVars>>

\* Variant: the trash directory is created as soon as it is named
CleanStartEager ==
    /\ step = "clean"
    /\ IF Conflicting(config)
       THEN /\ step' = "failed"
            /\ log' = Append(log, [before |-> store, had |-> dirs, trash |-> <<>>,
                                   moved |-> {}, end |-> "conflict"])
            /\ UNCHANGED <<clock, pass, dirs>>
       ELSE \E now \in clock..MaxClock :
               /\ clock' = now
               /\ step' = "walk"
               /\ dirs' = dirs \cup Ancestors(ConfigDir \o <<TRASH, ToString(now)>>)
               /\ pass' = [outputs |-> Outputs(config),
                           trash   |-> ConfigDir \o <<TRASH, ToString(now)>>,
                           created |-> TRUE,
                           entry   |-> 1,
                           todo    |-> FilesUnder(store, config[1].output)]
               /\ log' = Append(log, [before |-> store, had |-> dirs,
                                      trash  |-> ConfigDir \o <<TRASH, ToString(now)>>,
                                      moved  |-> {}, end |-> "running"])
    /\ UNCHANGED <<store, config, resolverVars, watchVars>>

\* Pig::clean up to the first directory walk: the outputs are collected (a
\* repeated one is fatal), the name of the trash directory is taken from the
\* clock, and the walk of the first entry's output root starts
CleanStart ==
    /\ step = "clean"
    /\ IF Conflicting(config)
       THEN /\ step' = "failed"
            /\ log' = Append(log, [before |-> store, had |-> dirs, trash |-> <<>>,
                                   moved |-> {}, end |-> "conflict"])
            /\ UNCHANGED <<clock, pass>>
       ELSE \E now \in clock..MaxClock :
               /\ clock' = now
               /\ step' = "walk"
               /\ pass' = [outputs |-> Outputs(config),
                           trash   |-> ConfigDir \o <<TRASH, ToString(now)>>,
                           created |-> FALSE,
                           entry   |-> 1,
                           todo    |-> FilesUnder(store, config[1].output)]
               /\ log' = Append(log, [before |-> store, had |-> dirs,
                                      trash  |-> ConfigDir \o <<TRASH, ToString(now)>>,
                                      moved  |-> {}, end |-> "running"])
    /\ UNCHANGED <<store, dirs, config, resolverVars, watchVars>>

\* Variant: the walk finds nothing stale
KeepsAll(entry, outputs, path) == TRUE

\* The walk yields a file that stays: a snapshot file of the entry walked,
\* or an output
Kept(entry, outputs, path) ==
    \/ StartsWith(path, JsonContext(entry))
    \/ StartsWith(path, YamlContext(entry))
    \/ path \in outputs

Keep ==
    /\ step = "walk"
    /\ \E path \in pass.todo :
          /\ Kept(config[pass.entry], pass.outputs, path)
          /\ pass' = [pass EXCEPT !.todo = @ \ {path}]
    /\ UNCHANGED <<store, dirs, clock, config, step, log, resolverVars, watchVars>>

\* The walk yields a stale file: the trash directory is created if this is
\* the first one, and the file is renamed into it
Trash ==
    /\ step = "walk"
    /\ \E path \in pass.todo :
          LET made == IF pass.created THEN dirs ELSE dirs \cup Ancestors(pass.trash)
              dest == pass.trash \o StripPrefix(path, config[pass.entry].output)
          IN  /\ ~Kept(config[pass.entry], pass.outputs, path)
              /\ dirs' = made
              /\ pass' = [pass EXCEPT !.todo = @ \ {path}, !.created = TRUE]
              /\ IF Parent(dest) \in made /\ dest \notin made
                 THEN /\ store' = Rename(store, path, dest)
                      /\ log' = [log EXCEPT ![Len(log)].moved = @ \cup {<<path, dest>>}]
                      /\ step' = step
                 ELSE /\ log' = [log EXCEPT ![Len(log)].end = "io"]
                      /\ step' = "failed"
                      /\ store' = store
    /\ UNCHANGED <<clock, config, resolverVars, watchVars>>

\* The walk of an output root is over: the next entry's root is walked, or
\* Pig::clean returns
NextEntry ==
    /\ step = "walk"
    /\ pass.todo = {}
    /\ IF pass.entry < Len(config)
       THEN /\ pass' = [pass EXCEPT !.entry = @ + 1,
                                    !.todo = FilesUnder(store, config[pass.entry + 1].output)]
            /\ UNCHANGED <<step, log>>
       ELSE /\ step' = "render"
            /\ log' = [log EXCEPT ![Len(log)].end = "ok"]
            /\ UNCHANGED pass
    /\ UNCHANGED <<store, dirs, clock, config, resolverVars, watchVars>>

\* Pig::render for every entry: the directory of each output is created and
\* the output is written
Render ==
    /\ step = "render"
    /\ store' = [p \in DOMAIN store \cup Outputs(config) |->
                   IF p \in Outputs(config) THEN RenderedText ELSE store[p]]
    /\ dirs' = dirs \cup UNION {Ancestors(Parent(o)) : o \in Outputs(config)}
    /\ step' = "idle"
    /\ UNCHANGED <<clock, config, pass, log, resolverVars, watchVars>>

NextPig ==
    \/ RunStart
    \/ CleanStart
    \/ Keep
    \/ Trash
    \/ NextEntry
    \/ Render

SpecPig == InitPig /\ [][NextPig]_vars

---------------------------------------------------------------------------
(* Pig::oink: one-shot mode and watch mode (src/pig.rs 27-61, 174-350).    *)
(* The resolver is seen from outside here: a schema file refers to other   *)
(* schema files or is broken, and Pig::context yields the files reached    *)
(* (the Dependency Set) and a context, or fails.  The template set `tera`  *)
(* of an entry is kept in config[k].templates, as Pig::clean receives it.  *)

\* The main schema file of entry k (`ConfigEntry.openapi`)
Root(k) == ConfigDir \o <<"api", ToString(k)>>

\* A schema file the main files may refer to
SharedFile == ConfigDir \o <<"api", "s">>

\* `ConfigEntry.input`
InputDir(k) == ConfigDir \o <<"in", ToString(k)>>

\* `config.file`
ConfigFile == ConfigDir \o <<"pig.yaml">>

\* The templates an input directory may hold
InputNames == {<<"A", JINJA>>}

\* What a schema file may hold: the files it refers to, and whether it parses
Contents(f) ==
    IF f = SharedFile THEN [refs : {{}}, ok : BOOLEAN]
    ELSE [refs : {{}, {SharedFile}}, ok : BOOLEAN]

\* The files a resolution of `root` loads
DependenciesOf(sch, root) == {root} \cup sch[root].refs

\* Pig::context succeeds
Resolves(sch, root) == \A f \in DependenciesOf(sch, root) : sch[f].ok

\* Events of the channel
ConfigEvent == [kind |-> "config", entry |-> 0]

OpenapiEvent(i) == [kind |-> "openapi", entry |-> i]

InputEvent(i) == [kind |-> "input", entry |-> i]

Startup == [kind |-> "startup", entry |-> 0]

NoEvent == [kind |-> "none", entry |-> 0]

\* WatcherEntry::new: no dependency, a default context
NewEntry == [dependencies |-> {}, context |-> "default"]

\* Watcher::new for the n entries of a configuration
NewWatcher(gen, watch, n) ==
    [gen |-> gen, watch |-> watch, handling |-> Startup, cursor |-> 1,
     entries |-> [k \in 1..n |-> NewEntry]]

\* The running Watcher: the innermost call of Watcher::watch
Current == session[Len(session)]

\* A registration of a path with a watcher of Watcher number `gen`
Registration(gen, kind, entry, path) ==
    [gen |-> gen, kind |-> kind, entry |-> entry, path |-> path]

\* What the backends have to send after a data change of `path`
Notified(regs, path) ==
    {[gen |-> w.gen, kind |-> w.kind, entry |-> w.entry] : w \in {x \in regs : x.path = path}}

\* The configurations a watch session starts from or reloads: no template is
\* enumerated yet
FreshConfigs ==
    {c \in Configs : \A k \in 1..Len(c) : c[k].templates = {}}

NoHistory == [sent |-> <<>>, taken |-> 0, writes |-> 0, touches |-> 0,
              resolved |-> 0, enumerated |-> {}, mark |-> 0, rendered |-> {}]

InitOink ==
    /\ config \in FreshConfigs
    /\ store = [p \in {config[1].output \o <<"B">>} |-> p]
    /\ dirs = UNION {Ancestors(config[k].output) : k \in 1..Len(config)}
                \cup Ancestors(ConfigDir)
    /\ clock = 1
    /\ pass = NoPass
    /\ log = <<>>
    /\ schema = [f \in {Root(k) : k \in 1..MaxEntries} \cup {SharedFile} |->
                    [refs |-> IF f = SharedFile THEN {} ELSE {SharedFile}, ok |-> TRUE]]
    /\ inputs = [k \in 1..MaxEntries |-> InputNames]
    /\ watches = {}
    /\ pending = {}
    /\ channel = <<>>
    /\ \E watch \in BOOLEAN :
          /\ session = <<NewWatcher(1, watch, Len(config))>>
          /\ step = IF watch THEN "boot" ELSE "entry"
    /\ hist = NoHistory
    /\ fs = <<>>
    /\ file = <<>>
    /\ files = <<>>
    /\ references = <<>>
    /\ calls = <<>>
    /\ output = Null
    /\ status = "off"
    /\ error = NoError
    /\ reads = <<>>

\* The process is alive
Alive == step \notin {"failed", "done"}

\* Someone writes a schema file: the backends of the watchers that hold the
\* file will send an event
WriteSchema ==
    /\ Alive
    /\ hist.writes < MaxWrites
    /\ \E f \in DOMAIN schema : \E content \in Contents(f) :
          /\ schema' = [schema EXCEPT ![f] = content]
          /\ pending' = pending \cup Notified(watches, f)
    /\ hist' = [hist EXCEPT !.writes = @ + 1]
    /\ UNCHANGED <<pigVars, resolverVars, inputs, watches, channel, session>>

\* Someone writes into an input directory
WriteInput ==
    /\ Alive
    /\ hist.writes < MaxWrites
    /\ \E k \in DOMAIN inputs : \E names \in SUBSET InputNames :
          /\ inputs' = [inputs EXCEPT ![k] = names]
          /\ pending' = pending \cup Notified(watches, InputDir(k))
    /\ hist' = [hist EXCEPT !.writes = @ + 1]
    /\ UNCHANGED <<pigVars, resolverVars, schema, watches, channel, session>>

\* Someone writes the configuration file
WriteConfig ==
    /\ Alive
    /\ hist.touches < MaxReloads
    /\ pending' = pending \cup Notified(watches, ConfigFile)
    /\ hist' = [hist EXCEPT !.touches = @ + 1]
    /\ UNCHANGED <<pigVars, resolverVars, schema, inputs, watches, channel, session>>

\* Watcher::handler on a backend thread: a data change is sent to the
\* channel of the Watcher that made the watcher (that of an earlier Watcher
\* is read by nobody)
Send ==
    /\ Alive
    /\ \E n \in pending :
          /\ pending' = pending \ {n}
          /\ IF n.gen = Current.gen
             THEN /\ channel' = Append(channel, [kind |-> n.kind, entry |-> n.entry])
                  /\ hist' = [hist EXCEPT !.sent = Append(@, [kind |-> n.kind, entry |-> n.entry])]
             ELSE UNCHANGED <<channel, hist>>
    /\ UNCHANGED <<pigVars, resolverVars, schema, inputs, watches, session>>

\* Watcher::watch, first lines: the configuration file is watched
WatchConfig ==
    /\ step = "boot"
    /\ watches' = watches \cup {Registration(Current.gen, "config", 0, ConfigFile)}
    /\ step' = "entry"
    /\ UNCHANGED <<store, dirs, clock, config, pass, log, resolverVars,
                   schema, inputs, pending, channel, session, hist>>

\* Pig::context and Pig::tera for the entry under the cursor (Pig::run, or
\* the first two lines of WatcherEntry::watch): the schema is resolved, the
\* snapshot files are written and the templates are enumerated; a failed
\* resolution ends the process
EntryResolve ==
    /\ step = "entry"
    /\ LET k == Current.cursor
           last == k = Len(config)
       IN  IF Resolves(schema, Root(k))
           THEN /\ session' = [session EXCEPT
                      ![Len(session)].entries[k] =
                          [dependencies |-> DependenciesOf(schema, Root(k)),
                           context |-> [f \in DependenciesOf(schema, Root(k)) |-> schema[f]]],
                      ![Len(session)].cursor =
                          IF Current.watch \/ last THEN @ ELSE @ + 1]
                /\ store' = [p \in DOMAIN store \cup {JsonContext(config[k]), YamlContext(config[k])} |->
                               IF p \in {JsonContext(config[k]), YamlContext(config[k])}
                               THEN ContextText ELSE store[p]]
                /\ config' = [config EXCEPT ![k].templates = inputs[k]]
                /\ step' = IF Current.watch THEN "entrywatch"
                           ELSE IF last THEN "clean" ELSE "entry"
                /\ hist' = [hist EXCEPT !.resolved = @ + 1, !.enumerated = @ \cup {k}]
           ELSE /\ step' = "failed"
                /\ UNCHANGED <<session, store, config, hist>>
    /\ UNCHANGED <<dirs, clock, pass, log, resolverVars,
                   schema, inputs, watches, pending, channel>>

\* Variant: the reconcile pass starts after the first entry
EntryWatchOnce ==
    /\ step = "entrywatch"
    /\ LET k == Current.cursor
       IN  watches' = watches
              \cup {Registration(Current.gen, "openapi", k, f) :
                       f \in Current.entries[k].dependencies}
              \cup {Registration(Current.gen, "input", k, InputDir(k))}
    /\ step' = "clean"
    /\ UNCHANGED <<store, dirs, clock, config, pass, log, resolverVars,
                   schema, inputs, pending, channel, session, hist>>

\* WatcherEntry::watch, the rest: every dependency and the input directory
\* are watched
EntryWatch ==
    /\ step = "entrywatch"
    /\ LET k == Current.cursor
       IN  /\ watches' = watches
                 \cup {Registration(Current.gen, "openapi", k, f) :
                          f \in Current.entries[k].dependencies}
                 \cup {Registration(Current.gen, "input", k, InputDir(k))}
           /\ IF k = Len(config)
              THEN /\ step' = "clean"
                   /\ UNCHANGED session
              ELSE /\ step' = "entry"
                   /\ session' = [session EXCEPT ![Len(session)].cursor = @ + 1]
    /\ UNCHANGED <<store, dirs, clock, config, pass, log, resolverVars,
                   schema, inputs, pending, channel, hist>>

\* The entries a render step is for: all of them at startup, the one of the
\* event otherwise
Targets ==
    IF Current.handling = Startup THEN 1..Len(config) ELSE {Current.handling.entry}

\* Pig::render for the targets; then the one-shot process ends and the
\* watching one waits for an event
OinkRender ==
    /\ step = "render"
    /\ LET outs == UNION {{Output(config[k], t) : t \in config[k].templates} : k \in Targets}
       IN  /\ store' = [p \in DOMAIN store \cup outs |->
                          IF p \in outs THEN RenderedText ELSE store[p]]
           /\ dirs' = dirs \cup UNION {Ancestors(Parent(o)) : o \in outs}
    /\ hist' = [hist EXCEPT !.rendered = Targets]
    /\ session' = [session EXCEPT ![Len(session)].handling = NoEvent]
    /\ step' = IF Current.watch THEN "wait" ELSE "done"
    /\ UNCHANGED <<clock, config, pass, log, resolverVars,
                   schema, inputs, watches, pending, channel>>

\* Variant: the newest event is taken
TakeNewest(chan) == [event |-> chan[Len(chan)], rest |-> Front(chan)]

\* `for event in &self.receiver`: the oldest event of the channel, and what
\* stays in the channel
TakeFrom(chan) == [event |-> Head(chan), rest |-> Tail(chan)]

\* Event::Config: a new Watcher is made from the configuration read again
\* and its `watch` is called from inside the loop of this one, which stays
\* on the stack with all it owns
Reload ==
    /\ step = "wait"
    /\ channel # <<>>
    /\ TakeFrom(channel).event.kind = "config"
    /\ \E c \in FreshConfigs :
          /\ config' = c
          /\ session' = Append(session, NewWatcher(Current.gen + 1, TRUE, Len(c)))
    /\ channel' = <<>>
    /\ hist' = [hist EXCEPT !.sent = <<>>, !.taken = 0, !.enumerated = {},
                            !.mark = Len(log)]
    /\ step' = "boot"
    /\ UNCHANGED <<store, dirs, clock, pass, log, resolverVars,
                   schema, inputs, watches, pending>>

\* Event::Openapi(i) is taken: WatcherEntry::on_openapi starts
TakeOpenapi ==
    /\ step = "wait"
    /\ channel # <<>>
    /\ TakeFrom(channel).event.kind = "openapi"
    /\ channel' = TakeFrom(channel).rest
    /\ session' = [session EXCEPT ![Len(session)].handling = TakeFrom(channel).event]
    /\ hist' = [hist EXCEPT !.taken = @ + 1, !.mark = Len(log)]
    /\ step' = "unwatch"
    /\ UNCHANGED <<store, dirs, clock, config, pass, log, resolverVars,
                   schema, inputs, watches, pending>>

\* Event::Input(i) is taken: WatcherEntry::on_input starts
TakeInput ==
    /\ step = "wait"
    /\ channel # <<>>
    /\ TakeFrom(channel).event.kind = "input"
    /\ channel' = TakeFrom(channel).rest
    /\ session' = [session EXCEPT ![Len(session)].handling = TakeFrom(channel).event]
    /\ hist' = [hist EXCEPT !.taken = @ + 1, !.mark = Len(log)]
    /\ step' = "tera"
    /\ UNCHANGED <<store, dirs, clock, config, pass, log, resolverVars,
                   schema, inputs, watches, pending>>

\* Variant: the old dependencies stay watched
UnwatchNothing ==
    /\ step = "unwatch"
    /\ step' = "resolve"
    /\ UNCHANGED <<store, dirs, clock, config, pass, log, resolverVars,
                   schema, inputs, watches, pending, channel, session, hist>>

\* WatcherEntry::on_openapi, first loop: every dependency is unwatched
Unwatch ==
    /\ step = "unwatch"
    /\ LET i == Current.handling.entry
       IN  watches' = watches \ {Registration(Current.gen, "openapi", i, f) :
                                    f \in Current.entries[i].dependencies}
    /\ step' = "resolve"
    /\ UNCHANGED <<store, dirs, clock, config, pass, log, resolverVars,
                   schema, inputs, pending, channel, session, hist>>

\* Variant: a failed resolution is dropped and the loop goes on
ReresolveLenient ==
    /\ step = "resolve"
    /\ LET i == Current.handling.entry
       IN  IF Resolves(schema, Root(i))
           THEN /\ session' = [session EXCEPT
                      ![Len(session)].entries[i] =
                          [dependencies |-> DependenciesOf(schema, Root(i)),
                           context |-> [f \in DependenciesOf(schema, Root(i)) |-> schema[f]]]]
                /\ store' = [p \in DOMAIN store \cup {JsonContext(config[i]), YamlContext(config[i])} |->
                               IF p \in {JsonContext(config[i]), YamlContext(config[i])}
                               THEN ContextText ELSE store[p]]
                /\ hist' = [hist EXCEPT !.resolved = @ + 1]
                /\ step' = "rewatch"
           ELSE /\ step' = "wait"
                /\ session' = [session EXCEPT ![Len(session)].handling = NoEvent]
                /\ UNCHANGED <<store, hist>>
    /\ UNCHANGED <<dirs, clock, config, pass, log, resolverVars,
                   schema, inputs, watches, pending, channel>>

\* WatcherEntry::on_openapi, the call of Pig::context: dependencies and
\* context are replaced; a failed resolution ends the process
Reresolve ==
    /\ step = "resolve"
    /\ LET i == Current.handling.entry
       IN  IF Resolves(schema, Root(i))
           THEN /\ session' = [session EXCEPT
                      ![Len(session)].entries[i] =
                          [dependencies |-> DependenciesOf(schema, Root(i)),
                           context |-> [f \in DependenciesOf(schema, Root(i)) |-> schema[f]]]]
                /\ store' = [p \in DOMAIN store \cup {JsonContext(config[i]), YamlContext(config[i])} |->
                               IF p \in {JsonContext(config[i]), YamlContext(config[i])}
                               THEN ContextText ELSE store[p]]
                /\ hist' = [hist EXCEPT !.resolved = @ + 1]
                /\ step' = "rewatch"
           ELSE /\ step' = "failed"
                /\ UNCHANGED <<session, store, hist>>
    /\ UNCHANGED <<dirs, clock, config, pass, log, resolverVars,
                   schema, inputs, watches, pending, channel>>

\* WatcherEntry::on_openapi, second loop: every new dependency is watched
Rewatch ==
    /\ step = "rewatch"
    /\ LET i == Current.handling.entry
       IN  watches' = watches \cup {Registration(Current.gen, "openapi", i, f) :
                                       f \in Current.entries[i].dependencies}
    /\ step' = "clean"
    /\ UNCHANGED <<store, dirs, clock, config, pass, log, resolverVars,
                   schema, inputs, pending, channel, session, hist>>

\* Variant: the schema is resolved again as well
OnInputResolving ==
    /\ step = "tera"
    /\ LET i == Current.handling.entry
       IN  /\ config' = [config EXCEPT ![i].templates = inputs[i]]
           /\ session' = [session EXCEPT
                 ![Len(session)].entries[i] =
                     [dependencies |-> DependenciesOf(schema, Root(i)),
                      context |-> [f \in DependenciesOf(schema, Root(i)) |-> schema[f]]]]
    /\ hist' = [hist EXCEPT !.resolved = @ + 1]
    /\ step' = "clean"
    /\ UNCHANGED <<store, dirs, clock, pass, log, resolverVars,
                   schema, inputs, watches, pending, channel>>

\* WatcherEntry::on_input: the templates are enumerated again
OnInput ==
    /\ step = "tera"
    /\ LET i == Current.handling.entry
       IN  config' = [config EXCEPT ![i].templates = inputs[i]]
    /\ step' = "clean"
    /\ UNCHANGED <<store, dirs, clock, pass, log, resolverVars,
                   schema, inputs, watches, pending, channel, session, hist>>

NextOink ==
    \/ WriteSchema
    \/ WriteInput
    \/ WriteConfig
    \/ Send
    \/ WatchConfig
    \/ EntryResolve
    \/ EntryWatch
    \/ CleanStart
    \/ Keep
    \/ Trash
    \/ NextEntry
    \/ OinkRender
    \/ Reload
    \/ TakeOpenapi
    \/ TakeInput
    \/ Unwatch
    \/ Reresolve
    \/ Rewatch
    \/ OnInput

SpecOink == InitOink /\ [][NextOink]_vars

---------------------------------------------------------------------------
(* The reference graph of a file system, read off the documents alone      *)
(* (not off a run): what the claims below compare the runs with.           *)

Done == status \in {"ok", "error"}

Reserved == {"$ref", "$file", "$keys", "$name"}

\* The document of a file as a session sees it
SeenDoc(path) ==
    IF path = file /\ IsObj(fs[path]) THEN ToValue(fs[path]) ELSE fs[path]

RECURSIVE RefObjects(_)
\* The mappings with a `$ref` key that a traversal of v meets
RefObjects(v) ==
    IF IsObj(v)
    THEN IF "$ref" \in DOMAIN v.o THEN {v}
         ELSE UNION {RefObjects(v.o[k]) : k \in DOMAIN v.o}
    ELSE IF v.t = "arr" THEN UNION {RefObjects(v.a[i]) : i \in 1..Len(v.a)}
    ELSE {}

IsRefNode(v) == IsObj(v) /\ DOMAIN v.o = {"$ref"} /\ v.o["$ref"].t = "str"

\* The reference a reference node found in file `cur` stands for
RefOf(cur, node) == ReferenceNew(fs, cur, node.o["$ref"].s)

\* The subtree a reference points to
TargetOf(ref) ==
    IF ref.file \in DOMAIN fs THEN Walk(SeenDoc(ref.file), ref.keys, 1)
    ELSE [ok |-> FALSE, value |-> Null, at |-> 0]

\* The references of the reference nodes in v, a subtree of file `cur`
RefsIn(cur, v) ==
    {RefOf(cur, node).ref :
        node \in {q \in RefObjects(v) : IsRefNode(q) /\ RefOf(cur, q).err = "none"}}

Succ(ref) == IF TargetOf(ref).ok THEN RefsIn(ref.file, TargetOf(ref).value) ELSE {}

RECURSIVE Closure(_)
Closure(S) ==
    LET T == S \cup UNION {Succ(r) : r \in S}
    IN  IF T = S THEN S ELSE Closure(T)

\* The references a resolution of the main file can come to expand
Reachable == IF file \in DOMAIN fs THEN Closure(RefsIn(file, SeenDoc(file))) ELSE {}

\* Some reference that resolution can reach leads back to itself
Cyclic == \E r \in Reachable : r \in Closure(Succ(r))

ReachableFiles == {file} \cup {r.file : r \in Reachable}

RECURSIVE NoSoleRef(_)
\* No mapping of v has `$ref` as its only key
NoSoleRef(v) ==
    IF IsObj(v)
    THEN DOMAIN v.o # {"$ref"} /\ \A k \in DOMAIN v.o : NoSoleRef(v.o[k])
    ELSE IF v.t = "arr" THEN \A i \in 1..Len(v.a) : NoSoleRef(v.a[i])
    ELSE TRUE

---------------------------------------------------------------------------
(* C1: a reference to a reference.                                         *)

\* The main file's components.x, when the main file is a valid document
\* whose components.y is a plain leaf
RootX == fs[file].o["components"].o["x"]

\* components.x of the main file refers to a reference node, which refers
\* to a plain mapping {value: 1}; nothing else in the main file is a reference
ChainToLeaf ==
    /\ DecodesAsOpenAPI(fs[file])
    /\ fs[file].o["components"].o["y"] = Leaf
    /\ IsRefNode(RootX)
    /\ RefOf(file, RootX).err = "none"
    /\ LET outer == RefOf(file, RootX).ref
       IN  /\ outer.keys # <<>>
           /\ TargetOf(outer).ok
           /\ IsRefNode(TargetOf(outer).value)
           /\ RefOf(outer.file, TargetOf(outer).value).err = "none"
           /\ LET inner == RefOf(outer.file, TargetOf(outer).value).ref
              IN  /\ inner.keys # <<>>
                  /\ TargetOf(inner).ok
                  /\ TargetOf(inner).value = Leaf

\* C1: when a reference's target is itself a reference node that leads to
\* the mapping {value: 1}, resolution ends successfully and the node is
\* replaced by {value: 1} annotated with the OUTER reference ($ref, $file,
\* $keys, $name of the outer reference).
C1_RefToRefResolves ==
    (ChainToLeaf /\ Done) =>
        /\ status = "ok"
        /\ output.o["components"].o["x"]
             = Obj(Extend(Leaf.o, Extension(RefOf(file, RootX).ref)))

---------------------------------------------------------------------------
(* C2: rings of files.                                                     *)

\* The one reference node of a file that has exactly one
TheRefNode(path) == CHOOSE q \in RefObjects(SeenDoc(path)) : TRUE

\* The N files of the session form a ring: the main file is a valid
\* document, every file holds exactly one reference node, and the node of
\* file k refers to a subtree of file k+1 (of file 1 for k = N) that holds
\* that file's reference node.
IsRing(N) ==
    /\ DOMAIN fs = {FilePath(k) : k \in 1..N}
    /\ DecodesAsOpenAPI(fs[file])
    /\ \A k \in 1..N :
          LET path == FilePath(k)
          IN  /\ IsObj(fs[path])
              /\ Cardinality(RefObjects(SeenDoc(path))) = 1
              /\ IsRefNode(TheRefNode(path))
              /\ RefOf(path, TheRefNode(path)).err = "none"
              /\ LET ref == RefOf(path, TheRefNode(path)).ref
                 IN  /\ ref.file = FilePath(Next1(k, N))
                     /\ TargetOf(ref).ok
                     /\ RefObjects(TargetOf(ref).value) = RefObjects(SeenDoc(ref.file))

\* The reference of file k of a ring
RingRef(k) == RefOf(FilePath(k), TheRefNode(FilePath(k))).ref

\* Every reference of the ring names at least one key
RingKeyed(N) == \A k \in 1..N : RingRef(k).keys # <<>>

\* What a ring of N files must lead to: no success, never more than N
\* references on the stack before the failure, and the failure a cycle
\* error whose chain is the N references in expansion order followed by the
\* first one again
RingOutcome(N) ==
    /\ status # "ok"
    /\ status # "error" => Len(references) <= N
    /\ status = "error" =>
          /\ error.kind = "cycle"
          /\ Len(error.chain) = N + 1
          /\ \A k \in 1..N : error.chain[k] = ReferenceToString(RingRef(k))
          /\ error.chain[N + 1] = error.chain[1]

\* C2 as stated: for every N >= 1, a ring of N files fails with a cycle
\* error whose chain has exactly N+1 references in expansion order, the last
\* equal to an earlier one, and the stack never holds more than N references
\* before the failure.
C2_RingAsStated == \A N \in 1..MaxFiles : IsRing(N) => RingOutcome(N)

\* C2 amended: the same for rings whose references all name at least one key
\* (a reference to a whole document, "<file>#/", is refused as empty before
\* the target is looked at).
C2_RingCycleError == \A N \in 1..MaxFiles : (IsRing(N) /\ RingKeyed(N)) => RingOutcome(N)

\* A ring of MaxFiles files has failed with its cycle error
C2_Witness ==
    /\ IsRing(MaxFiles)
    /\ RingKeyed(MaxFiles)
    /\ status = "error"
    /\ error.kind = "cycle"
    /\ Len(error.chain) = MaxFiles + 1

---------------------------------------------------------------------------
(* C3: termination.                                                        *)

Distinct(s) == \A i, j \in 1..Len(s) : i # j => s[i] # s[j]

\* While resolve runs, the stack holds no reference twice
StackDistinct == status # "error" => Distinct(references)

\* Without a reachable cycle the call does not end with a cycle error
AcyclicOutcome == (Done /\ ~Cyclic) => (status = "ok" \/ error.kind # "cycle")

\* C3 as stated (its safety part): the stack never holds two equal
\* references, an acyclic graph ends with a result or a non-cycle error, and
\* a graph in which a reference reaches itself ends with a cycle error.
C3_AsStated ==
    /\ StackDistinct
    /\ AcyclicOutcome
    /\ (Done /\ Cyclic) => (status = "error" /\ error.kind = "cycle")

\* C3 amended: resolve terminates; the stack never holds two equal
\* references; an acyclic graph ends with a result or a non-cycle error; a
\* graph in which a reachable reference reaches itself ends with an error
\* (the cycle error, unless another error is raised before the cycle closes).
C3_Terminates ==
    /\ [](StackDistinct /\ AcyclicOutcome /\ ((Done /\ Cyclic) => status = "error"))
    /\ <>Done

\* A session over a cyclic graph that ended with another error
C3_Witness == Done /\ Cyclic /\ status = "error" /\ error.kind # "cycle"

---------------------------------------------------------------------------
(* C4: no reference node is left.                                          *)

\* C4: whenever resolve returns successfully, no mapping of the returned
\* tree, at any depth, has `$ref` as its only key.
C4_NoSoleRef == status = "ok" => NoSoleRef(output)

\* A success in which a reference was expanded inside an inlined fragment
C4_Witness ==
    /\ status = "ok"
    /\ \E r \in Reachable : Succ(r) # {}
    /\ \E v \in RefObjects(SeenDoc(file)) : TRUE

---------------------------------------------------------------------------
(* C5: the annotation.                                                     *)

RECURSIVE Resolved(_, _, _)
\* `out` is what `src`, a subtree of file `cur`, has to look like after a
\* successful resolution: scalars, sequences and mappings keep their shape;
\* a reference node is the mapping of its target, every key of the target
\* kept with its resolved value, plus the four reserved keys
Resolved(src, out, cur) ==
    IF IsObj(src) /\ "$ref" \in DOMAIN src.o
    THEN /\ IsRefNode(src)
         /\ RefOf(cur, src).err = "none"
         /\ LET ref    == RefOf(cur, src).ref
                target == TargetOf(ref)
            IN  /\ ref.keys # <<>>
                /\ target.ok
                /\ IsObj(target.value)
                /\ IsObj(out)
                /\ DOMAIN out.o = DOMAIN target.value.o \cup Reserved
                /\ out.o["$ref"] = Str(ReferenceToString(ref))
                /\ out.o["$file"] = Str(Display(ref.file))
                /\ out.o["$keys"] = Arr([i \in 1..Len(ref.keys) |-> Str(<<ref.keys[i]>>)])
                /\ out.o["$name"] = Str(<<ref.keys[Len(ref.keys)]>>)
                /\ out.o["$name"] = out.o["$keys"].a[Len(out.o["$keys"].a)]
                /\ \A k \in DOMAIN target.value.o :
                      Resolved(target.value.o[k], out.o[k], ref.file)
    ELSE IF IsObj(src)
    THEN /\ IsObj(out)
         /\ DOMAIN out.o = DOMAIN src.o
         /\ \A k \in DOMAIN src.o : Resolved(src.o[k], out.o[k], cur)
    ELSE IF src.t = "arr"
    THEN /\ out.t = "arr"
         /\ Len(out.a) = Len(src.a)
         /\ \A i \in 1..Len(src.a) : Resolved(src.a[i], out.a[i], cur)
    ELSE out = src

\* C5: in the output of a successful resolve, every mapping that replaced a
\* reference node carries `$ref`, `$file` (the canonical target file), `$keys`
\* (the reference's key list) and `$name` (the last of `$keys`), and every
\* key of the target subtree with its resolved value.
C5_Annotated == status = "ok" => Resolved(SeenDoc(file), output, file)

\* A success with at least two reference nodes replaced, one of them in
\* another file than the main one
C5_Witness ==
    /\ status = "ok"
    /\ Cardinality(Reachable) >= 2
    /\ \E r \in Reachable : r.file # file

---------------------------------------------------------------------------
(* C6: the dependency set.                                                 *)

\* The dependency set resolve returns with the document: the files of the
\* session cache at the end of the pass
Dependencies == DOMAIN files

\* C6: no file is opened more than once in a session, and a successful
\* resolve returns as dependency set exactly the main file and the files its
\* references reach, directly or through inlined fragments; in particular
\* three paths when they reach two other files, however many references
\* lead to each.
C6_Dependencies ==
    /\ \A p \in DOMAIN fs : reads[p] <= 1
    /\ status = "ok" =>
          /\ Dependencies = ReachableFiles
          /\ \A p \in Dependencies : reads[p] = 1
          /\ Cardinality(ReachableFiles \ {file}) = 2 => Cardinality(Dependencies) = 3

\* A success over three files, one of them the target of several references
C6_Witness ==
    /\ status = "ok"
    /\ Cardinality(Dependencies) = 3
    /\ \E p \in Dependencies : Cardinality({r \in Reachable : r.file = p}) >= 2

---------------------------------------------------------------------------
(* C7: `$ref` with other keys.                                             *)

\* resolve is about to look at a mapping that has `$ref` and other keys
AtInvalidRefObject ==
    /\ Running
    /\ Top.pc = "enter"
    /\ HasKey(Top.value, "$ref")
    /\ Cardinality(DOMAIN Top.value.o) > 1

\* C7: a mapping with `$ref` and at least one other key makes resolve fail
\* with the invalid-reference-object error that names the other keys, and
\* the cache and the files opened are what they were before.
C7_InvalidRefObject ==
    [][AtInvalidRefObject =>
          /\ status' = "error"
          /\ error'.kind = "invalid_ref_object"
          /\ error'.detail = ExtraKeys(Top.value.o)
          /\ error'.detail # <<>>
          /\ files' = files
          /\ reads' = reads
          /\ references' = references]_vars

\* The failure, raised inside a fragment of another file whose own target
\* file was never opened
C7_Witness ==
    /\ status = "error"
    /\ error.kind = "invalid_ref_object"
    /\ error.detail = <<"extra">>
    /\ references # <<>>
    /\ \E p \in DOMAIN fs : reads[p] = 0

---------------------------------------------------------------------------
(* C8: reserved keys in a target.                                          *)

\* A mapping of several keys, one of them reserved
ReservedTarget(v) ==
    IsObj(v) /\ Cardinality(DOMAIN v.o) >= 2 /\ DOMAIN v.o \cap Reserved # {}

\* resolve is about to look at the clone of such a target
EnteringReservedTarget ==
    /\ Running
    /\ Len(calls) >= 2
    /\ Last(Rest).pc = "ref"
    /\ Top.pc = "enter"
    /\ ReservedTarget(Top.value)

\* resolve is about to annotate the resolved clone of such a target
AnnotatingReservedTarget ==
    /\ Running
    /\ Top.pc = "annotate"
    /\ references # <<>>
    /\ TargetOf(Last(references)).ok
    /\ ReservedTarget(TargetOf(Last(references)).value)

NoReservedTargetReached == \A r \in Reachable : ~ReservedTarget(TargetOf(r).value)

\* C8 as stated: when the target of a reference is a mapping of several keys
\* that defines `$ref`, `$file`, `$keys` or `$name`, a failure at that target
\* is the reserved-key collision error, and no tree is returned.
C8_AsStated ==
    [][/\ (EnteringReservedTarget /\ status' = "error") => error'.kind = "collision"
       /\ AnnotatingReservedTarget => (status' = "error" /\ error'.kind = "collision")
       /\ status' = "ok" => NoReservedTargetReached]_vars

\* C8 amended: no tree is returned; the failure is the reserved-key
\* collision error, naming a reserved key of the target, when the key is
\* `$file`, `$keys` or `$name` and the target's own content resolved, and
\* the invalid-reference-object error when the key is `$ref`.
C8_ReservedKeys ==
    [][/\ EnteringReservedTarget =>
             IF "$ref" \in DOMAIN Top.value.o
             THEN status' = "error" /\ error'.kind = "invalid_ref_object"
             ELSE status' # "error"
       /\ AnnotatingReservedTarget =>
             /\ status' = "error"
             /\ error'.kind = "collision"
             /\ error'.detail[1] \in DOMAIN TargetOf(Last(references)).value.o \cap Reserved
             /\ output' = output
       /\ status' = "ok" => NoReservedTargetReached]_vars

\* The collision error raised for a target that defines `$file`
C8_Witness ==
    /\ status = "error"
    /\ error.kind = "collision"
    /\ error.detail = <<"$file">>
    /\ Top.pc = "annotate"
    /\ HasKey(Top.value, "value")
    /\ Top.value.o["$file"] = Str(<<"s">>)

---------------------------------------------------------------------------
(* C9, C10: the reconcile pass.                                            *)

\* The file is one of entry i's two snapshot files
IsSnapshot(i, p) ==
    StartsWith(p, JsonContext(config[i])) \/ StartsWith(p, YamlContext(config[i]))

\* A regular file under entry i's output root that no template produces and
\* that is not a snapshot file of the entry
StaleFor(i, d, p) ==
    /\ p \in DOMAIN d
    /\ StartsWith(p, config[i].output)
    /\ p \notin Outputs(config)
    /\ ~IsSnapshot(i, p)

\* The files of d in entry i's output directory other than snapshot files
Plain(i, d) ==
    {p \in FilesUnder(d, config[i].output) :
        \A j \in 1..Len(config) : ~IsSnapshot(j, p)}

\* When the first pass began every output directory held its two snapshot
\* files, one expected file and one file that no template produces
HoldsAB ==
    /\ log # <<>>
    /\ log[1].end # "conflict"
    /\ \A i \in 1..Len(config) :
          /\ JsonContext(config[i]) \in DOMAIN log[1].before
          /\ YamlContext(config[i]) \in DOMAIN log[1].before
          /\ \E a, b \in Plain(i, log[1].before) :
                /\ Plain(i, log[1].before) = {a, b}
                /\ a \in Outputs(config)
                /\ b \notin Outputs(config)

\* The first pass has returned and nothing was rendered yet
FirstPassOver == Len(log) = 1 /\ step = "render"

\* C9: for output directories holding an expected file A, a file B that no
\* template produces and the two snapshot files, the first reconcile pass
\* does not fail, leaves A and the snapshot files where they are, moves
\* exactly the files B, all of them into one trash directory that did not
\* exist before; the second pass moves nothing.
C9_AsStated ==
    HoldsAB =>
       /\ log[1].end # "io"
       /\ FirstPassOver =>
             /\ \A p \in DOMAIN log[1].before :
                   (p \in Outputs(config) \/ \E i \in 1..Len(config) : IsSnapshot(i, p))
                      => (p \in DOMAIN store /\ store[p] = log[1].before[p])
             /\ {m[1] : m \in log[1].moved}
                   = {p \in DOMAIN log[1].before :
                         \E i \in 1..Len(config) : StaleFor(i, log[1].before, p)}
             /\ \A m \in log[1].moved : StartsWith(m[2], log[1].trash)
             /\ log[1].trash \notin log[1].had
       /\ Len(log) >= 2 => log[2].moved = {}

\* C10: a reconcile pass does not fail on a stale file, and when it has
\* returned every file that was stale for an entry is no longer where it was
\* and is found, with its content, in the pass's trash directory at its path
\* relative to the output root of an entry that holds it.
C10_AsStated ==
    /\ \A r \in 1..Len(log) : log[r].end # "io"
    /\ (log # <<>> /\ step = "render") =>
          LET before == log[Len(log)].before
          IN  \A i \in 1..Len(config) : \A p \in DOMAIN before :
                 StaleFor(i, before, p) =>
                    /\ p \notin DOMAIN store
                    /\ \E j \in 1..Len(config) :
                          /\ StartsWith(p, config[j].output)
                          /\ LET dest == log[Len(log)].trash
                                           \o StripPrefix(p, config[j].output)
                             IN  dest \in DOMAIN store /\ store[dest] = before[p]

---------------------------------------------------------------------------
(* C11, C12, C13: what a reconcile pass may touch.                         *)

\* The pass in progress or just over
ThisPass == log[Len(log)]

\* A reconcile pass is running or has just ended (nothing rendered since)
InPass == log # <<>> /\ step \in {"walk", "render", "failed"}

TrashRoot == ConfigDir \o <<TRASH>>

\* C11: during and after a reconcile pass every file that existed when the
\* pass began still exists with the same content, where it was or in the
\* trash, and no two files moved in the pass went to the same trash path.
C11_AsStated ==
    InPass =>
       /\ \A p \in DOMAIN ThisPass.before :
             \E q \in DOMAIN store :
                /\ store[q] = ThisPass.before[p]
                /\ q = p \/ StartsWith(q, TrashRoot)
       /\ \A m, n \in ThisPass.moved : m[1] # n[1] => m[2] # n[2]

\* Two different (entry, template) pairs of the session have one output path
SameOutputTwice ==
    \E i, j \in 1..Len(config) :
       \E t \in config[i].templates, u \in config[j].templates :
          <<i, t>> # <<j, u>>
             /\ config[i].output \o SubSeq(t, 1, Len(t) - 1)
                   = config[j].output \o SubSeq(u, 1, Len(u) - 1)

\* C12: when two (entry, template) pairs have the same output path the
\* reconcile pass fails with the output-collision error without moving a
\* file or creating a directory, and nothing is rendered after the failure.
C12_ConflictFails ==
    [][/\ (step = "clean" /\ SameOutputTwice) =>
             /\ step' = "failed"
             /\ log'[Len(log')].end = "conflict"
             /\ log'[Len(log')].moved = {}
             /\ store' = store
             /\ dirs' = dirs
       /\ (step = "failed" /\ log # <<>> /\ ThisPass.end = "conflict") =>
             step' \in {"failed", "clean"}]_vars

\* The pass failed on a collision between two entries while a stale file
\* lies in an output directory
C12_Witness ==
    /\ step = "failed"
    /\ log # <<>>
    /\ ThisPass.end = "conflict"
    /\ SameOutputTwice
    /\ Len(config) = 2
    /\ \E i \in 1..Len(config) : \E p \in DOMAIN store : StaleFor(i, store, p)

\* An expected output, or a snapshot file of some entry
Protected(p) ==
    p \in Outputs(config) \/ \E i \in 1..Len(config) : IsSnapshot(i, p)

---------------------------------------------------------------------------
(* C19: a document without references.                                     *)

\* The main file exists and holds no `$ref` key anywhere
NoRefAnywhere == file \in DOMAIN fs /\ RefObjects(fs[file]) = {}

\* C19: resolving a main document that holds no `$ref` key anywhere returns
\* a tree equal to the loaded main document, opens no file but the main
\* one, and yields the dependency set {main file}.
C19_NoRefs ==
    (Done /\ NoRefAnywhere /\ file \in DOMAIN files) =>
       /\ status = "ok"
       /\ output = files[file]
       /\ DOMAIN files = {file}
       /\ Dependencies = {file}
       /\ \A p \in DOMAIN fs : reads[p] = IF p = file THEN 1 ELSE 0

\* Such a document was resolved while other schema files lie next to it
C19_Witness ==
    /\ status = "ok"
    /\ NoRefAnywhere
    /\ output = files[file]
    /\ Cardinality(DOMAIN fs) >= 2

---------------------------------------------------------------------------
(* Watch mode.                                                             *)

\* An event is being handled: it was taken and its render is not over
Handling == Current.handling \notin {NoEvent, Startup}

\* The step takes an event from the channel
Takes == hist'.taken = hist.taken + 1 \/ Len(session') > Len(session)

\* The reconcile pass started since the event was taken (or since startup)
\* went over all entries and ended well
PassDone ==
    /\ Len(log) = hist.mark + 1
    /\ ThisPass.end = "ok"
    /\ pass.entry = Len(config)
    /\ pass.todo = {}

\* C14: the watch loop is a single consumer.  Events are taken in the order
\* in which they were sent to the channel; an event is taken only when no
\* handling is under way, and a handling is over only after its reconcile
\* pass over all entries and its render, so the steps of two handlings never
\* interleave, however many watchers have sent events meanwhile.
C14_SingleConsumer ==
    [][/\ Takes =>
             /\ step = "wait"
             /\ Current.handling = NoEvent
             /\ hist.taken < Len(hist.sent)
             /\ \/ Current'.handling = hist.sent[hist.taken + 1]
                \/ /\ hist.sent[hist.taken + 1] = ConfigEvent
                   /\ Len(session') = Len(session) + 1
       /\ Handling =>
             /\ ~Takes
             /\ Len(channel') >= Len(channel)
             /\ Current'.handling \in {Current.handling, NoEvent}
             /\ Current'.handling = NoEvent => step = "render" /\ PassDone
      ]_vars

C14_Witness ==
    /\ step = "walk"
    /\ hist.taken = 1
    /\ Current.handling = hist.sent[1]
    /\ Len(channel) = 1
    /\ channel[1] # Current.handling
    /\ pending # {}

\* The schema files the watcher of entry k of Watcher g holds
WatchedBy(g, k) ==
    {w.path : w \in {x \in watches : x.gen = g /\ x.kind = "openapi" /\ x.entry = k}}

\* C15: whenever the loop waits for an event, the schema files each entry's
\* watcher holds are the entry's Dependency Set; in the handling of a schema
\* event for entry i nothing of entry i is watched when the entry is resolved
\* again, and from the end of on_openapi on the files watched are the new
\* Dependency Set, so the handles of an entry never outnumber its
\* dependencies.
C15_WatchesFollowDependencies ==
    /\ step = "wait" =>
          \A k \in 1..Len(config) :
             WatchedBy(Current.gen, k) = Current.entries[k].dependencies
    /\ step = "resolve" => WatchedBy(Current.gen, Current.handling.entry) = {}
    /\ (Current.handling.kind = "openapi" /\ step \in {"clean", "walk", "render"}) =>
          /\ WatchedBy(Current.gen, Current.handling.entry)
                = Current.entries[Current.handling.entry].dependencies
          /\ Current.entries[Current.handling.entry].dependencies
                = DOMAIN Current.entries[Current.handling.entry].context

C15_Witness ==
    /\ step = "wait"
    /\ hist.taken >= 1
    /\ \E k \in 1..Len(config) :
          /\ Current.entries[k].dependencies = {Root(k)}
          /\ WatchedBy(Current.gen, k) = {Root(k)}
          /\ schema[Root(k)].refs = {}

\* C16: while a reloaded Watcher runs, no watch registered by an earlier
\* Watcher is registered any more and no earlier Watcher is alive, so the
\* watches are those of one Watcher however many reloads there were.
C16_AsStated ==
    Current.gen > 1 =>
       /\ \A w \in watches : w.gen = Current.gen
       /\ Len(session) = 1

\* The registrations of schema files
SchemaWatches(regs) == {w \in regs : w.kind = "openapi"}

\* C17: from the step that takes an input event for entry i to the end of
\* its render, no resolution runs; context, Dependency Set and schema
\* watches of every entry and the template set of every other entry stay as
\* they are; on_input gives entry i the templates found in its input
\* directory, and the render is that of entry i, with the context it had.
C17_InputFrame ==
    [][/\ Current'.handling.kind = "input" =>
          /\ hist'.resolved = hist.resolved
          /\ Len(session') = Len(session)
          /\ Current'.entries = Current.entries
          /\ SchemaWatches(watches') = SchemaWatches(watches)
          /\ \A j \in 1..Len(config) :
                j # Current'.handling.entry => config'[j].templates = config[j].templates
          /\ (step = "tera" /\ step' # "tera") =>
                config'[Current.handling.entry].templates = inputs[Current.handling.entry]
       /\ (Current.handling.kind = "input" /\ step = "render" /\ step' # "render") =>
             /\ hist'.rendered = {Current.handling.entry}
             /\ Current'.entries = Current.entries
             /\ hist'.resolved = hist.resolved
             /\ \A t \in config[Current.handling.entry].templates :
                   Output(config[Current.handling.entry], t) \in DOMAIN store'
      ]_vars

C17_Witness ==
    /\ step = "wait"
    /\ hist.taken >= 1
    /\ hist.sent[hist.taken].kind = "input"
    /\ hist.rendered = {hist.sent[hist.taken].entry}
    /\ Len(config) = 2
    /\ config[hist.sent[hist.taken].entry].templates = {}
    /\ \E j \in 1..Len(config) : config[j].templates # {}
    /\ \A k \in 1..Len(config) : WatchedBy(Current.gen, k) = {Root(k), SharedFile}

\* C18: in watch mode an error in the handling of an event ends the whole
\* session.  A resolution that cannot succeed and a repeated output both
\* end it; the step that fails takes no event and renders nothing; and once
\* it has failed nothing happens any more: no event is taken, nothing is
\* resolved, reconciled or rendered, for the entry of the event or any other.
C18_ErrorEndsSession ==
    [][/\ ~(Current.watch /\ step = "failed")
       /\ (Current.watch /\ Handling /\ step' # step /\ step = "resolve"
             /\ ~Resolves(schema, Root(Current.handling.entry))) => step' = "failed"
       /\ (Current.watch /\ Handling /\ step' # step /\ step = "clean"
             /\ SameOutputTwice) => step' = "failed"
       /\ (Current.watch /\ step' = "failed") =>
             /\ hist' = hist
             /\ channel' = channel
             /\ session' = session
             /\ \A p \in DOMAIN store' : store'[p] = RenderedText =>
                   p \in DOMAIN store /\ store[p] = RenderedText
      ]_vars

C18_Witness ==
    /\ step = "failed"
    /\ Current.watch
    /\ Handling
    /\ Current.handling.kind = "openapi"
    /\ ~Resolves(schema, Root(Current.handling.entry))
    /\ channel # <<>>
    /\ Len(config) = 2

\* The step renders
Renders == step = "render" /\ step' # "render"

\* The outputs of the entries in `ks`
OutputsOf(ks) == UNION {{Output(config[k], t) : t \in config[k].templates} : k \in ks}

\* C20: in one-shot mode, at watch startup, after a reload and in the
\* handling of a schema or input event, nothing is rendered before the
\* reconcile pass of that run or event has gone over all entries; at startup
\* the pass starts when every entry is resolved and its templates are
\* enumerated, and the render after it is that of every entry, while the
\* render of an event for entry i is that of entry i only.
C20_CleanBeforeRender ==
    [][/\ Renders =>
             /\ PassDone
             /\ hist'.rendered =
                   IF Current.handling = Startup THEN 1..Len(config)
                   ELSE {Current.handling.entry}
             /\ \A p \in OutputsOf(hist'.rendered) :
                   p \in DOMAIN store' /\ store'[p] = RenderedText
             /\ \A p \in DOMAIN store' \ OutputsOf(hist'.rendered) :
                   p \in DOMAIN store /\ store'[p] = store[p]
       /\ (\E p \in DOMAIN store' \cap OutputsOf(1..Len(config)) :
              store'[p] = RenderedText /\ (p \notin DOMAIN store \/ store[p] # RenderedText))
             => Renders
       /\ (step = "clean" /\ step' = "walk" /\ Current.handling = Startup) =>
             \A k \in 1..Len(config) :
                /\ Current.entries[k] # NewEntry
                /\ k \in hist.enumerated
      ]_vars

C20_Witness ==
    /\ step = "wait"
    /\ hist.taken >= 1
    /\ Len(config) = 2
    /\ Len(log) >= 2
    /\ ThisPass.end = "ok"
    /\ pass.entry = 2
    /\ hist.rendered = {hist.sent[hist.taken].entry}
    /\ \E p \in OutputsOf({hist.sent[hist.taken].entry}) : store[p] = RenderedText

---------------------------------------------------------------------------
(* The file a reference is interpreted against.                            *)

\* The file the fragment under resolution was taken from
FragmentFile == IF references = <<>> THEN file ELSE references[Len(references)].file

\* The file part of a reference text
FilePart(text) == Trim(SplitOn(text, "#")[1])

\* C21: the reference pushed for a `$ref` has the file its file part names
\* when read against the file of the innermost reference on the stack (the
\* root file when the stack is empty): an empty file part names that file
\* itself, a relative one is joined to that file's parent directory.  This
\* holds for every push, those after a pop included.
C21_InnermostFile ==
    [][Len(references') = Len(references) + 1 =>
          LET part == FilePart(Top.value.o["$ref"].s)
              pushed == references'[Len(references')]
          IN  /\ part = <<>> => pushed.file = FragmentFile
              /\ (part # <<>> /\ part[1] # "/") =>
                    /\ Canonicalize(fs, Parent(FragmentFile) \o Components(part)).ok
                    /\ pushed.file =
                          Canonicalize(fs, Parent(FragmentFile) \o Components(part)).path
      ]_vars

C21_Witness ==
    /\ status = "resolving"
    /\ Len(references) = 2
    /\ references[1].file # file
    /\ references[2].file = references[1].file
    /\ Len(calls) >= 2
    /\ calls[Len(calls) - 1].pc = "ref"
    /\ HasKey(calls[Len(calls) - 1].value, "$ref")
    /\ FilePart(calls[Len(calls) - 1].value.o["$ref"].s) = <<>>

---------------------------------------------------------------------------
(* The trash directory of a pass.                                          *)

\* The pass under way began with a stale file in some output directory
FoundStale ==
    \E i \in 1..Len(config) : \E p \in DOMAIN ThisPass.before :
       StaleFor(i, ThisPass.before, p)

\* C22: the trash directory of a pass is named once, when the pass begins,
\* by the clock of that moment, and naming it creates nothing.  During the
\* walks the name stays; every file that appears or changes on disk lies
\* under that directory, whichever entry it came from; directories are
\* created only by the step that handles the first stale file of the pass,
\* and they are the trash directory and its ancestors.  A pass that began
\* with no stale file changes neither files nor directories.
C22_OneLazyTrash ==
    [][/\ step = "clean" =>
             /\ store' = store
             /\ dirs' = dirs
             /\ step' = "walk" =>
                   /\ pass'.trash = ConfigDir \o <<TRASH, ToString(clock')>>
                   /\ log'[Len(log')].trash = pass'.trash
       /\ step = "walk" =>
             /\ pass'.trash = pass.trash
             /\ ThisPass.trash = pass.trash
             /\ \A q \in DOMAIN store' :
                   (q \notin DOMAIN store \/ store'[q] # store[q]) =>
                      /\ StartsWith(q, pass.trash)
                      /\ q # pass.trash
             /\ dirs' # dirs =>
                   /\ store = ThisPass.before
                   /\ dirs = ThisPass.had
                   /\ dirs' = dirs \cup Ancestors(pass.trash)
                   /\ \E p \in pass.todo \ pass'.todo : StaleFor(pass.entry, store, p)
             /\ ~FoundStale => store' = store /\ dirs' = dirs
      ]_vars

C22_Witness ==
    /\ step = "render"
    /\ ThisPass.end = "ok"
    /\ ThisPass.trash \notin ThisPass.had
    /\ ThisPass.trash \in dirs
    /\ \E m, n \in ThisPass.moved :
          /\ StartsWith(m[1], config[1].output)
          /\ Len(config) = 2
          /\ StartsWith(n[1], config[2].output)
          /\ ~StartsWith(n[1], config[1].output)
          /\ m[2] # n[2]
          /\ StartsWith(m[2], ThisPass.trash)
          /\ StartsWith(n[2], ThisPass.trash)
          /\ m[2] \in DOMAIN store
          /\ n[2] \in DOMAIN store

---------------------------------------------------------------------------
(* Writes that race with the registration of watches.                      *)

\* Nothing is on its way to the loop of the running Watcher
Quiet ==
    /\ Current.watch
    /\ step = "wait"
    /\ channel = <<>>
    /\ \A n \in pending : n.gen # Current.gen

\* What a resolution of entry k's schema would give now
Fresh(k) == [f \in DependenciesOf(schema, Root(k)) |-> schema[f]]

\* C23: when the loop waits, the channel is empty and no notification is on
\* its way, the context of every entry is the resolution of the files as
\* they are now: no write of a schema file went unnoticed.
C23_AsStated ==
    Quiet => \A k \in 1..Len(config) : Current.entries[k].context = Fresh(k)

---------------------------------------------------------------------------
(* The output directories when the loop waits.                             *)

\* The loop waits for an event: startup is over, or an event was handled
Idle == Current.watch /\ step = "wait"

\* The outputs of entry k's templates and its two snapshot files
ExpectedOf(k) == OutputsOf({k}) \cup {JsonContext(config[k]), YamlContext(config[k])}

\* C24 as stated: whenever the loop waits, the regular files under every
\* entry's output directory are that entry's expected outputs and its two
\* snapshot files, no more and no fewer.
C24_AsStated ==
    Idle => \A k \in 1..Len(config) : FilesUnder(store, config[k].output) = ExpectedOf(k)

\* The expected outputs and snapshot files of all entries
ExpectedOfAll == UNION {ExpectedOf(j) : j \in 1..Len(config)}

\* C24: whenever the loop waits, the regular files under every entry's
\* output directory are the expected outputs and the snapshot files, of this
\* entry and of every entry whose files lie in the same directory, no more
\* and no fewer: the output of every current template of every entry is
\* there with rendered content, and an output whose template went away with
\* an input event is not.
C24_IdleOutputs ==
    Idle =>
       /\ \A k \in 1..Len(config) :
             FilesUnder(store, config[k].output)
                = {p \in ExpectedOfAll : StartsWith(p, config[k].output)}
       /\ \A p \in OutputsOf(1..Len(config)) : store[p] = RenderedText

C24_Witness ==
    /\ Idle
    /\ hist.taken >= 1
    /\ hist.sent[hist.taken].kind = "input"
    /\ Len(config) = 2
    /\ \E i, j \in 1..2 :
          /\ i = hist.sent[hist.taken].entry
          /\ j # i
          /\ config[i].templates = {}
          /\ config[i].output \o <<"A">> \notin DOMAIN store
          /\ \E m \in ThisPass.moved : m[1] = config[i].output \o <<"A">>
          /\ config[j].templates # {}
          /\ OutputsOf({j}) \subseteq DOMAIN store

=============================================================================
